---- MODULE Spec2Model ----
(***************************************************************************)
(* Control core of the skeleton Ethernet driver, drivers/net/skeleton.c.   *)
(*                                                                         *)
(* Control flow, watchdog calls and IRQ calls are taken from the           *)
(* executable statements of the file.  The hardware accesses the file      *)
(* leaves as placeholder comments (send the packet, copy the frame, get    *)
(* and clear the status bits, reset) are modelled by their effect on the   *)
(* adapter state at the place the comment stands.  A condition that exists *)
(* only in a comment ("if so, call ...") is NOT a guard of the model: the  *)
(* statement that follows it in the file is unconditional.                 *)
(*                                                                         *)
(* Interrupt-context handlers (skel_interrupt and the two watchdog         *)
(* callbacks) run to completion and are one action each.  The task-context *)
(* entry points (skel_ifup, skel_ifdown, skel_txavail) advance statement   *)
(* by statement, so a handler can preempt them wherever interrupts are not *)
(* masked by irqsave().                                                    *)
(*                                                                         *)
(* Spec is the driver with its environment; FairSpec adds the fairness of  *)
(* watchdog expiry; RxSpec applies skel_receive alone to every RX queue,   *)
(* with frames that pass the error and size checks and frames that fail.   *)
(***************************************************************************)
EXTENDS Naturals, Sequences, FiniteSets

\* Bounds of the model
MaxFrames == 2      \* frames the adapter can hold pending in its RX queue
MaxConns  == 1      \* connections uip_poll()/uip_timer() offers to the callback
MaxTx     == 2      \* frames the adapter can hold admitted and not yet completed

VARIABLES
  sk_bifup,       \* skel_driver_s.sk_bifup
  sk_txpoll,      \* state of the watchdog sk_txpoll: "Idle" or "Armed"
  sk_txtimeout,   \* state of the watchdog sk_txtimeout: "Idle" or "Armed"
  d_len,          \* sk_dev.d_len
  irq,            \* CONFIG_skeleton_IRQ enabled (up_enable_irq/up_disable_irq)
  masked,         \* interrupts masked by irqsave()
  pc,             \* position of the task-context caller
  txpending,      \* adapter: frames admitted by skel_transmit, not yet completed
  txdone,         \* adapter: TX-done status bit latched, not yet read
  rxq,            \* adapter: ethertypes of the frames pending, oldest first
  ev              \* what the most recent step did (observation log)

vars == <<sk_bifup, sk_txpoll, sk_txtimeout, d_len, irq, masked, pc,
          txpending, txdone, rxq, ev>>

FrameTypes == {"IP", "ARP", "OTHER"}
\* d_len is only ever compared with 0: 0 is "no data", 1 is "d_len > 0"
Lens       == {0, 1}

Min(a, b) == IF a < b THEN a ELSE b

\* Sequences over S of length lo..hi
SeqsBetween(S, lo, hi) == UNION {[1..n -> S] : n \in lo..hi}

\* What the stack's connections leave in d_len during one poll, in the order
\* they are offered.  The callback's effect depends on that sequence only
\* through how many entries are positive and through the last entry, so one
\* sequence stands for each such pair: the positive entries first, then at
\* most one 0.
PollAnswers ==
  {c \in SeqsBetween(Lens, 0, MaxConns) :
     \A i \in 1..Len(c) : c[i] = 0 => i = Len(c)}

\* A fresh log for a step of operation op taken with sk_bifup = up
NewLog(op, up) ==
  [op |-> op, up |-> up, rxrdy |-> FALSE, txdn |-> FALSE,
   inputs |-> 0, drained |-> 0, polls |-> 0, xmits |-> 0, rxxmits |-> 0,
   arpouts |-> 0, resets |-> 0, trace |-> <<>>]

\* trace is the log's list of the calls of the step since the last frame was
\* copied from the adapter, or of all its calls if none was: the names of
\* the functions called, in order.  A frame copy is entered as "rx" (the
\* frame passes the error and size checks), "rx_bad" (it does not) or
\* "rx_stale" (no frame was pending) and is followed by the ethertype read;
\* a call of an input function of the stack is followed by what it left in
\* d_len.
Called(s, calls) == [s EXCEPT !.ev.trace = @ \o calls]

Left(len) == IF len > 0 THEN "d_len>0" ELSE "d_len=0"


\* The whole state as one record, for the operators that model the functions
Cur ==
  [bifup |-> sk_bifup, txpoll |-> sk_txpoll, txtimeout |-> sk_txtimeout,
   d_len |-> d_len, irq |-> irq, masked |-> masked, pc |-> pc,
   txpending |-> txpending, txdone |-> txdone, rxq |-> rxq, ev |-> ev]

Install(t) ==
  /\ sk_bifup' = t.bifup
  /\ sk_txpoll' = t.txpoll
  /\ sk_txtimeout' = t.txtimeout
  /\ d_len' = t.d_len
  /\ irq' = t.irq
  /\ masked' = t.masked
  /\ pc' = t.pc
  /\ txpending' = t.txpending
  /\ txdone' = t.txdone
  /\ rxq' = t.rxq
  /\ ev' = t.ev

Init ==
  /\ sk_bifup = FALSE
  /\ sk_txpoll = "Idle"
  /\ sk_txtimeout = "Idle"
  /\ d_len = 0
  /\ irq = FALSE
  /\ masked = FALSE
  /\ pc = "idle"
  /\ txpending = 0
  /\ txdone = FALSE
  /\ rxq = <<>>
  /\ ev = NewLog("init", FALSE)


(***************************************************************************)
(* Common TX logic                                                         *)
(***************************************************************************)

\* skel_transmit: the packet is handed to the adapter (placeholder at line
\* 161) and the TX timeout watchdog is (re)started; always OK.  The adapter
\* holds at most MaxTx frames; a frame sent beyond that is lost.
skel_transmit(s) ==
  Called([s EXCEPT !.txpending = Min(@ + 1, MaxTx),
                   !.txtimeout = "Armed",
                   !.ev.xmits = @ + 1],
         <<"skel_transmit", "wd_start_txtimeout">>)

\* skel_uiptxpoll: the poll callback.  Returns 0 in every case, so the poll
\* goes on to the next connection.
skel_uiptxpoll(s) ==
  IF s.d_len > 0
    THEN skel_transmit(Called([s EXCEPT !.ev.arpouts = @ + 1],
                              <<"uip_arp_out">>))
    ELSE s

\* uip_poll(dev, skel_uiptxpoll): the stack offers its connections in turn;
\* connection i leaves conns[i] in d_len and the callback is called.
RECURSIVE PollConns(_, _)
PollConns(s, conns) ==
  IF conns = <<>>
    THEN s
    ELSE PollConns(skel_uiptxpoll([s EXCEPT !.d_len = Head(conns)]), Tail(conns))

uip_poll(s, conns) ==
  PollConns(Called([s EXCEPT !.ev.polls = @ + 1], <<"uip_poll">>), conns)

\* uip_timer(dev, skel_uiptxpoll, hsec): advances the stack's clocks, then
\* polls the connections as uip_poll does.
uip_timer(s, conns) == uip_poll(s, conns)

(***************************************************************************)
(* Interrupt handling                                                      *)
(***************************************************************************)

\* Mutant of RxFrame: an ARP reply goes through uip_arp_out as an IP reply
\* does
RxFrame_arp_via_arp_out(s, fr, reply) ==
  LET got == [s EXCEPT !.d_len = 1, !.ev.drained = @ + 1,
                       !.ev.trace = <<IF ~fr.real THEN "rx_stale"
                                      ELSE IF fr.ok THEN "rx" ELSE "rx_bad",
                                      fr.ty>>]
  IN  CASE fr.ty = "IP" ->
             LET t == Called([got EXCEPT !.ev.inputs = @ + 1, !.d_len = reply],
                             <<"uip_arp_ipin", "uip_input", Left(reply)>>)
             IN  IF t.d_len > 0
                   THEN skel_transmit(Called([t EXCEPT !.ev.arpouts = @ + 1,
                                                       !.ev.rxxmits = @ + 1],
                                             <<"uip_arp_out">>))
                   ELSE t
        [] fr.ty = "ARP" ->
             LET t == Called([got EXCEPT !.ev.inputs = @ + 1, !.d_len = reply],
                             <<"uip_arp_arpin", Left(reply)>>)
             IN  IF t.d_len > 0
                   THEN skel_transmit(Called([t EXCEPT !.ev.arpouts = @ + 1,
                                                       !.ev.rxxmits = @ + 1],
                                             <<"uip_arp_out">>))
                   ELSE t
        [] OTHER -> got

\* Mutant of RxFrame: an IP reply is sent first and uip_arp_out is called
\* after it
RxFrame_ip_xmit_first(s, fr, reply) ==
  LET got == [s EXCEPT !.d_len = 1, !.ev.drained = @ + 1,
                       !.ev.trace = <<IF ~fr.real THEN "rx_stale"
                                      ELSE IF fr.ok THEN "rx" ELSE "rx_bad",
                                      fr.ty>>]
  IN  CASE fr.ty = "IP" ->
             LET t == Called([got EXCEPT !.ev.inputs = @ + 1, !.d_len = reply],
                             <<"uip_arp_ipin", "uip_input", Left(reply)>>)
             IN  IF t.d_len > 0
                   THEN Called(skel_transmit([t EXCEPT !.ev.arpouts = @ + 1,
                                                       !.ev.rxxmits = @ + 1]),
                               <<"uip_arp_out">>)
                   ELSE t
        [] fr.ty = "ARP" ->
             LET t == Called([got EXCEPT !.ev.inputs = @ + 1, !.d_len = reply],
                             <<"uip_arp_arpin", Left(reply)>>)
             IN  IF t.d_len > 0
                   THEN skel_transmit([t EXCEPT !.ev.rxxmits = @ + 1])
                   ELSE t
        [] OTHER -> got

\* One pass of the body of the do-while of skel_receive.  fr is what the
\* adapter hands over: its ethertype ty, whether it passes the error and size
\* checks (ok; nothing in the body depends on it) and whether it is a frame
\* that was pending (real); reply is the d_len the stack's input function
\* leaves.
RxFrame(s, fr, reply) ==
  LET got == [s EXCEPT !.d_len = 1, !.ev.drained = @ + 1,
                       !.ev.trace = <<IF ~fr.real THEN "rx_stale"
                                      ELSE IF fr.ok THEN "rx" ELSE "rx_bad",
                                      fr.ty>>]
  IN  CASE fr.ty = "IP" ->
             LET t == Called([got EXCEPT !.ev.inputs = @ + 1, !.d_len = reply],
                             <<"uip_arp_ipin", "uip_input", Left(reply)>>)
             IN  IF t.d_len > 0
                   THEN skel_transmit(Called([t EXCEPT !.ev.arpouts = @ + 1,
                                                       !.ev.rxxmits = @ + 1],
                                             <<"uip_arp_out">>))
                   ELSE t
        [] fr.ty = "ARP" ->
             LET t == Called([got EXCEPT !.ev.inputs = @ + 1, !.d_len = reply],
                             <<"uip_arp_arpin", Left(reply)>>)
             IN  IF t.d_len > 0
                   THEN skel_transmit([t EXCEPT !.ev.rxxmits = @ + 1])
                   ELSE t
        [] OTHER -> got

\* Mutant of RxMore: the loop ends after its first pass
RxMore_first_pass_only(s, replies, bad, i) == s

\* The passes after the first: while the adapter has more packets (the
\* condition of the while at line 281 is left empty in the source)
RECURSIVE RxMore(_, _, _, _)
RxMore(s, replies, bad, i) ==
  IF s.rxq = <<>>
    THEN s
    ELSE RxMore(RxFrame([s EXCEPT !.rxq = Tail(@)],
                        [ty |-> Head(s.rxq), ok |-> i \notin bad, real |-> TRUE],
                        replies[i]),
                replies, bad, i + 1)

\* skel_receive: do { ... } while (more packets).  The body runs once before
\* the condition is looked at; with no frame pending, that pass reads
\* whatever the adapter hands over (stale: any ethertype).
skel_receive(s, replies, bad, stale) ==
  LET fr    == [ty   |-> IF s.rxq = <<>> THEN stale ELSE Head(s.rxq),
                ok   |-> 1 \notin bad,
                real |-> s.rxq # <<>>]
      taken == [s EXCEPT !.rxq = IF @ = <<>> THEN @ ELSE Tail(@)]
  IN  RxMore(RxFrame(taken, fr, replies[1]), replies, bad, 2)

\* Mutant of skel_txdone: the poll comes first and the TX timeout is
\* cancelled after it
skel_txdone_poll_first(s, conns) ==
  Called([uip_poll(s, conns) EXCEPT !.txtimeout = "Idle"], <<"wd_cancel">>)

\* skel_txdone: cancel the TX timeout, then poll
skel_txdone(s, conns) ==
  uip_poll(Called([s EXCEPT !.txtimeout = "Idle"], <<"wd_cancel">>), conns)

\* skel_interrupt: the status bits are read and cleared; skel_receive and
\* skel_txdone are then both called, whatever the bits were.
skel_interrupt(s, replies, bad, stale, conns) ==
  LET status == [s EXCEPT !.txdone = FALSE,
                          !.ev = [NewLog("interrupt", s.bifup)
                                    EXCEPT !.rxrdy = (s.rxq # <<>>),
                                           !.txdn = s.txdone]]
  IN  skel_txdone(skel_receive(status, replies, bad, stale), conns)

(***************************************************************************)
(* Watchdog timer expirations                                              *)
(***************************************************************************)

\* Mutant of skel_txtimeout: the handler starts its own watchdog again
skel_txtimeout_rearms(s, conns) ==
  [uip_poll([s EXCEPT !.txpending = 0, !.txdone = FALSE, !.rxq = <<>>,
                      !.ev.resets = @ + 1], conns)
     EXCEPT !.txtimeout = "Armed"]

\* skel_txtimeout: reset the hardware (placeholder at line 379), then poll
skel_txtimeout(s, conns) ==
  uip_poll([s EXCEPT !.txpending = 0, !.txdone = FALSE, !.rxq = <<>>,
                     !.ev.resets = @ + 1], conns)

\* Mutant of skel_polltimer: the poll watchdog is started again only when
\* the poll sent something
skel_polltimer_rearm_on_xmit(s, conns) ==
  LET t == uip_timer(s, conns)
  IN  [t EXCEPT !.txpoll = IF t.ev.xmits > 0 THEN "Armed" ELSE @]

\* skel_polltimer: tick and poll, then start the poll watchdog again
skel_polltimer(s, conns) ==
  [uip_timer(s, conns) EXCEPT !.txpoll = "Armed"]

(***************************************************************************)
(* NuttX callback functions: one statement per step                        *)
(***************************************************************************)

IfupPcs    == {"ifup_451", "ifup_452"}
IfdownPcs  == {"ifdown_480", "ifdown_484", "ifdown_485", "ifdown_489", "ifdown_490"}
TxavailPcs == {"txavail_522", "txavail_529", "txavail_532"}
HandlerOps == {"interrupt", "polltimer", "txtimeout"}

\* Mutant of skel_ifup: the IRQ is enabled before sk_bifup is set
skel_ifup_irq_first(s) ==
  LET t == [s EXCEPT !.ev = NewLog("ifup", s.bifup)]
  IN  CASE s.pc = "idle"     -> [t EXCEPT !.txpoll = "Armed", !.pc = "ifup_451"]
        [] s.pc = "ifup_451" -> [t EXCEPT !.irq = TRUE, !.pc = "ifup_452"]
        [] s.pc = "ifup_452" -> [t EXCEPT !.bifup = TRUE, !.pc = "idle"]

\* skel_ifup: start the poll watchdog, set sk_bifup, enable the IRQ.
\* Nothing here masks interrupts.
skel_ifup(s) ==
  LET t == [s EXCEPT !.ev = NewLog("ifup", s.bifup)]
  IN  CASE s.pc = "idle"     -> [t EXCEPT !.txpoll = "Armed", !.pc = "ifup_451"]
        [] s.pc = "ifup_451" -> [t EXCEPT !.bifup = TRUE, !.pc = "ifup_452"]
        [] s.pc = "ifup_452" -> [t EXCEPT !.irq = TRUE, !.pc = "idle"]

\* Mutant of skel_ifdown: the poll watchdog is not cancelled
skel_ifdown_poll_left(s) ==
  LET t == [s EXCEPT !.ev = NewLog("ifdown", s.bifup)]
  IN  CASE s.pc = "idle"       -> [t EXCEPT !.masked = TRUE, !.pc = "ifdown_480"]
        [] s.pc = "ifdown_480" -> [t EXCEPT !.irq = FALSE, !.pc = "ifdown_484"]
        [] s.pc = "ifdown_484" -> [t EXCEPT !.pc = "ifdown_485"]
        [] s.pc = "ifdown_485" -> [t EXCEPT !.txtimeout = "Idle", !.pc = "ifdown_489"]
        [] s.pc = "ifdown_489" ->
             [t EXCEPT !.txpending = 0, !.txdone = FALSE, !.rxq = <<>>,
                       !.bifup = FALSE, !.pc = "ifdown_490"]
        [] s.pc = "ifdown_490" -> [t EXCEPT !.masked = FALSE, !.pc = "idle"]

\* Mutant of skel_ifdown: up_disable_irq is left out
skel_ifdown_irq_left_on(s) ==
  LET t == [s EXCEPT !.ev = NewLog("ifdown", s.bifup)]
  IN  CASE s.pc = "idle"       -> [t EXCEPT !.masked = TRUE, !.pc = "ifdown_480"]
        [] s.pc = "ifdown_480" -> [t EXCEPT !.pc = "ifdown_484"]
        [] s.pc = "ifdown_484" -> [t EXCEPT !.txpoll = "Idle", !.pc = "ifdown_485"]
        [] s.pc = "ifdown_485" -> [t EXCEPT !.txtimeout = "Idle", !.pc = "ifdown_489"]
        [] s.pc = "ifdown_489" ->
             [t EXCEPT !.txpending = 0, !.txdone = FALSE, !.rxq = <<>>,
                       !.bifup = FALSE, !.pc = "ifdown_490"]
        [] s.pc = "ifdown_490" -> [t EXCEPT !.masked = FALSE, !.pc = "idle"]

\* Mutant of skel_ifdown: the second wd_cancel cancels the poll watchdog
\* again and the TX timeout watchdog is left as it is
skel_ifdown_timeout_left(s) ==
  LET t == [s EXCEPT !.ev = NewLog("ifdown", s.bifup)]
  IN  CASE s.pc = "idle"       -> [t EXCEPT !.masked = TRUE, !.pc = "ifdown_480"]
        [] s.pc = "ifdown_480" -> [t EXCEPT !.irq = FALSE, !.pc = "ifdown_484"]
        [] s.pc = "ifdown_484" -> [t EXCEPT !.txpoll = "Idle", !.pc = "ifdown_485"]
        [] s.pc = "ifdown_485" -> [t EXCEPT !.txpoll = "Idle", !.pc = "ifdown_489"]
        [] s.pc = "ifdown_489" ->
             [t EXCEPT !.txpending = 0, !.txdone = FALSE, !.rxq = <<>>,
                       !.bifup = FALSE, !.pc = "ifdown_490"]
        [] s.pc = "ifdown_490" -> [t EXCEPT !.masked = FALSE, !.pc = "idle"]

\* Mutant of skel_ifdown: irqsave/irqrestore are left out
skel_ifdown_unmasked(s) ==
  LET t == [s EXCEPT !.ev = NewLog("ifdown", s.bifup)]
  IN  CASE s.pc = "idle"       -> [t EXCEPT !.pc = "ifdown_480"]
        [] s.pc = "ifdown_480" -> [t EXCEPT !.irq = FALSE, !.pc = "ifdown_484"]
        [] s.pc = "ifdown_484" -> [t EXCEPT !.txpoll = "Idle", !.pc = "ifdown_485"]
        [] s.pc = "ifdown_485" -> [t EXCEPT !.txtimeout = "Idle", !.pc = "ifdown_489"]
        [] s.pc = "ifdown_489" ->
             [t EXCEPT !.txpending = 0, !.txdone = FALSE, !.rxq = <<>>,
                       !.bifup = FALSE, !.pc = "ifdown_490"]
        [] s.pc = "ifdown_490" -> [t EXCEPT !.pc = "idle"]

\* skel_ifdown: irqsave, disable the IRQ, cancel both watchdogs, reset the
\* device (placeholder at line 487) and clear sk_bifup, irqrestore.
skel_ifdown(s) ==
  LET t == [s EXCEPT !.ev = NewLog("ifdown", s.bifup)]
  IN  CASE s.pc = "idle"       -> [t EXCEPT !.masked = TRUE, !.pc = "ifdown_480"]
        [] s.pc = "ifdown_480" -> [t EXCEPT !.irq = FALSE, !.pc = "ifdown_484"]
        [] s.pc = "ifdown_484" -> [t EXCEPT !.txpoll = "Idle", !.pc = "ifdown_485"]
        [] s.pc = "ifdown_485" -> [t EXCEPT !.txtimeout = "Idle", !.pc = "ifdown_489"]
        [] s.pc = "ifdown_489" ->
             [t EXCEPT !.txpending = 0, !.txdone = FALSE, !.rxq = <<>>,
                       !.bifup = FALSE, !.pc = "ifdown_490"]
        [] s.pc = "ifdown_490" -> [t EXCEPT !.masked = FALSE, !.pc = "idle"]

\* Mutant of skel_txavail: irqrestore comes before the poll
skel_txavail_restore_first(s, conns) ==
  LET t == [s EXCEPT !.ev = NewLog("txavail", s.bifup)]
  IN  CASE s.pc = "idle" -> [t EXCEPT !.masked = TRUE, !.pc = "txavail_522"]
        [] s.pc = "txavail_522" ->
             IF s.bifup THEN [t EXCEPT !.masked = FALSE, !.pc = "txavail_529"]
                        ELSE [t EXCEPT !.pc = "txavail_532"]
        [] s.pc = "txavail_529" -> [uip_poll(t, conns) EXCEPT !.pc = "txavail_532"]
        [] s.pc = "txavail_532" -> [t EXCEPT !.masked = FALSE, !.pc = "idle"]

\* Mutant of skel_txavail: the test of sk_bifup is left out
skel_txavail_no_test(s, conns) ==
  LET t == [s EXCEPT !.ev = NewLog("txavail", s.bifup)]
  IN  CASE s.pc = "idle" -> [t EXCEPT !.masked = TRUE, !.pc = "txavail_522"]
        [] s.pc = "txavail_522" -> [t EXCEPT !.pc = "txavail_529"]
        [] s.pc = "txavail_529" -> [uip_poll(t, conns) EXCEPT !.pc = "txavail_532"]
        [] s.pc = "txavail_532" -> [t EXCEPT !.masked = FALSE, !.pc = "idle"]

\* Mutant of skel_txavail: irqsave/irqrestore are left out
skel_txavail_unmasked(s, conns) ==
  LET t == [s EXCEPT !.ev = NewLog("txavail", s.bifup)]
  IN  CASE s.pc = "idle" -> [t EXCEPT !.pc = "txavail_522"]
        [] s.pc = "txavail_522" ->
             [t EXCEPT !.pc = IF s.bifup THEN "txavail_529" ELSE "txavail_532"]
        [] s.pc = "txavail_529" -> [uip_poll(t, conns) EXCEPT !.pc = "txavail_532"]
        [] s.pc = "txavail_532" -> [t EXCEPT !.pc = "idle"]

\* skel_txavail: irqsave, poll if the interface is up, irqrestore
skel_txavail(s, conns) ==
  LET t == [s EXCEPT !.ev = NewLog("txavail", s.bifup)]
  IN  CASE s.pc = "idle" -> [t EXCEPT !.masked = TRUE, !.pc = "txavail_522"]
        [] s.pc = "txavail_522" ->
             [t EXCEPT !.pc = IF s.bifup THEN "txavail_529" ELSE "txavail_532"]
        [] s.pc = "txavail_529" -> [uip_poll(t, conns) EXCEPT !.pc = "txavail_532"]
        [] s.pc = "txavail_532" -> [t EXCEPT !.masked = FALSE, !.pc = "idle"]

(***************************************************************************)
(* Actions                                                                 *)
(***************************************************************************)

\* The adapter receives a frame (whether or not the interface is up)
FrameArrive ==
  /\ Len(rxq) < MaxFrames
  /\ \E ty \in FrameTypes : rxq' = Append(rxq, ty)
  /\ ev' = NewLog("hw", sk_bifup)
  /\ UNCHANGED <<sk_bifup, sk_txpoll, sk_txtimeout, d_len, irq, masked, pc,
                 txpending, txdone>>

\* The adapter finishes sending a frame and latches TX-done
HwTxComplete ==
  /\ txpending > 0
  /\ txpending' = txpending - 1
  /\ txdone' = TRUE
  /\ ev' = NewLog("hw", sk_bifup)
  /\ UNCHANGED <<sk_bifup, sk_txpoll, sk_txtimeout, d_len, irq, masked, pc,
                 rxq>>

\* The ethertype pass i of skel_receive looks at ("NONE": there is no pass i)
PassType(q, stale, i) ==
  IF i <= Len(q) THEN q[i]
  ELSE IF i = 1 THEN stale
  ELSE "NONE"

\* The adapter's interrupt is taken: its IRQ is enabled, interrupts are not
\* masked, and a status bit is set.  Nothing skel_receive does depends on
\* whether a frame passes the error and size checks, so here every frame
\* does; RxSpec below applies skel_receive to frames that do not.
Interrupt ==
  /\ irq
  /\ ~masked
  /\ rxq # <<>> \/ txdone
  /\ \E stale \in FrameTypes, replies \in [1..MaxFrames -> Lens] :
       /\ rxq # <<>> => stale = "OTHER"
       /\ \A i \in 1..MaxFrames :
            replies[i] > 0 => PassType(rxq, stale, i) \in {"IP", "ARP"}
       /\ \E conns \in PollAnswers :
            Install(skel_interrupt(Cur, replies, {}, stale, conns))

\* The poll watchdog expires: it goes idle and its callback runs
PollTimer ==
  /\ sk_txpoll = "Armed"
  /\ ~masked
  /\ \E conns \in PollAnswers :
       Install(skel_polltimer([Cur EXCEPT !.txpoll = "Idle",
                                 !.ev = NewLog("polltimer", sk_bifup)],
                              conns))

\* The TX timeout watchdog expires: it goes idle and its callback runs
TxTimeout ==
  /\ sk_txtimeout = "Armed"
  /\ ~masked
  /\ \E conns \in PollAnswers :
       Install(skel_txtimeout([Cur EXCEPT !.txtimeout = "Idle",
                                 !.ev = NewLog("txtimeout", sk_bifup)],
                              conns))

\* The stack calls d_ifup / the caller of skel_ifup goes on one statement
Ifup ==
  /\ pc \in {"idle"} \cup IfupPcs
  /\ Install(skel_ifup(Cur))

Ifdown ==
  /\ pc \in {"idle"} \cup IfdownPcs
  /\ Install(skel_ifdown(Cur))

Txavail ==
  /\ pc \in {"idle"} \cup TxavailPcs
  /\ \E conns \in PollAnswers :
       /\ pc # "txavail_529" => conns = <<>>
       /\ Install(skel_txavail(Cur, conns))

Next ==
  \/ FrameArrive
  \/ HwTxComplete
  \/ Interrupt
  \/ PollTimer
  \/ TxTimeout
  \/ Ifup
  \/ Ifdown
  \/ Txavail

Spec == Init /\ [][Next]_vars

TypeOK ==
  /\ sk_bifup \in BOOLEAN /\ irq \in BOOLEAN /\ masked \in BOOLEAN
  /\ sk_txpoll \in {"Idle", "Armed"} /\ sk_txtimeout \in {"Idle", "Armed"}
  /\ d_len \in Lens /\ txpending \in 0..MaxTx /\ txdone \in BOOLEAN
  /\ rxq \in SeqsBetween(FrameTypes, 0, MaxFrames)
  /\ pc \in {"idle"} \cup IfupPcs \cup IfdownPcs \cup TxavailPcs

\* A task-context callback that was entered runs on to its return
TaskRuns == pc # "idle" /\ (Ifup \/ Ifdown \/ Txavail)

\* The poll watchdog, once started, expires: its expiry is held off while
\* interrupts are masked and taken as soon as they are unmasked.
FairSpec ==
  /\ Spec
  /\ SF_vars(PollTimer)
  /\ WF_vars(TaskRuns)

(***************************************************************************)
(* skel_receive on its own                                                 *)
(***************************************************************************)

\* The states skel_interrupt can call skel_receive in that RxSpec starts
\* from: the interface is up, the adapter holds any frames, and either
\* nothing was sent or the one packet that was sent is done (TX-done set).
RxInit ==
  /\ sk_bifup = TRUE
  /\ sk_txpoll = "Armed"
  /\ irq = TRUE
  /\ masked = FALSE
  /\ pc = "idle"
  /\ txpending = 0
  /\ txdone \in BOOLEAN
  /\ sk_txtimeout = IF txdone THEN "Armed" ELSE "Idle"
  /\ d_len = IF txdone THEN 1 ELSE 0
  /\ rxq \in SeqsBetween(FrameTypes, 0, MaxFrames)
  /\ rxq # <<>> \/ txdone
  /\ ev = NewLog("hw", TRUE)

\* skel_receive is called: each frame may pass the error and size checks
\* or fail them
RxDrain ==
  /\ ev.op = "hw"
  /\ \E stale \in FrameTypes, replies \in [1..MaxFrames -> Lens],
        bad \in SUBSET (1..MaxFrames) :
       /\ rxq # <<>> => stale = "OTHER"
       /\ \A i \in 1..MaxFrames :
            replies[i] > 0 => PassType(rxq, stale, i) \in {"IP", "ARP"}
       /\ \A i \in bad : i <= Len(rxq)
       /\ Install(skel_receive([Cur EXCEPT !.ev = NewLog("skel_receive", TRUE)],
                               replies, bad, stale))

RxSpec == RxInit /\ [][RxDrain]_vars

(***************************************************************************)
(* Properties                                                              *)
(***************************************************************************)

\* A transmit is outstanding: the adapter holds a frame it has not finished
\* sending, or it has finished one and the driver has not yet seen TX-done
TxOutstanding == txpending > 0 \/ txdone

\* C1: between operations, the TX timeout watchdog is Armed if and only if
\* a transmit is outstanding.
C1_TimeoutArmedIffOutstanding ==
  pc = "idle" => ((sk_txtimeout = "Armed") <=> TxOutstanding)

C3_NoStallWithoutWatchdog ==
  (sk_bifup /\ pc = "idle" /\ TxOutstanding) => sk_txtimeout = "Armed"

\* C4: every run of the poll-timer handler leaves the poll watchdog Armed,
\* whatever the poll did, and the handler runs again and again for as long
\* as nothing cancels the watchdog: at every moment a later state follows in
\* which the handler has just run or the watchdog is Idle (cancelled by
\* skel_ifdown, or never started).
C4_PollTimerRearms ==
  /\ [](ev.op = "polltimer" => sk_txpoll = "Armed")
  /\ []<>(ev.op = "polltimer" \/ sk_txpoll = "Idle")

\* C4 witness: the handler has run with the interface up, its poll sent
\* nothing, and the poll watchdog is Armed again.
C4_Witness ==
  ev.op = "polltimer" /\ ev.up /\ ev.xmits = 0 /\ sk_txpoll = "Armed"

\* C5: the adapter's IRQ is enabled only while sk_bifup is set, in every
\* state, those inside skel_ifup and skel_ifdown included.
C5_IrqOnlyWhileUp == irq => sk_bifup

\* C5 witness: inside skel_ifup, sk_bifup already set and the IRQ not yet
\* enabled.
C5_Witness == pc = "ifup_452" /\ sk_bifup /\ ~irq

\* What skel_ifdown is to leave behind
Down ==
  /\ ~sk_bifup /\ ~irq
  /\ sk_txpoll = "Idle" /\ sk_txtimeout = "Idle"
  /\ txpending = 0 /\ ~txdone

\* C6: skel_ifdown returns with the interface Down from any state, and run
\* on an interface that is Down (a second call in a row, or one never
\* brought up) none of its steps changes that.
C6_IfdownIdempotent ==
  /\ []((pc = "idle" /\ ev.op = "ifdown") => (Down /\ ~masked))
  /\ [][(Down /\ ev'.op = "ifdown") => Down']_vars

\* C6 witness: skel_ifdown, called on an interface that is Down, is about
\* to cancel the already idle TX timeout watchdog.
C6_Witness == pc = "ifdown_485" /\ Down /\ ev.op = "ifdown"

C9_IfdownAtomic ==
  /\ [](pc \in IfdownPcs => masked)
  /\ [](pc \in {"ifdown_485", "ifdown_489", "ifdown_490"} => sk_txpoll = "Idle")
  /\ [](pc \in {"ifdown_489", "ifdown_490"} => sk_txtimeout = "Idle")
  /\ [][(pc \in IfdownPcs) => (ev'.op \notin HandlerOps)]_vars

\* C9 witness: half torn down (poll watchdog cancelled, sk_bifup still set)
\* with the TX timeout watchdog Armed, which only the masking keeps from
\* running its handler.
C9_Witness ==
  /\ pc = "ifdown_485" /\ sk_bifup /\ masked
  /\ sk_txpoll = "Idle" /\ sk_txtimeout = "Armed"

\* C10: inside skel_txavail interrupts are masked from before the test of
\* sk_bifup to after the poll, no handler runs in between, and the poll is
\* reached only with sk_bifup set.
C10_TxavailAtomic ==
  /\ [](pc \in TxavailPcs => masked)
  /\ [](pc = "txavail_529" => sk_bifup)
  /\ [][(pc \in TxavailPcs) => (ev'.op \notin HandlerOps)]_vars

\* C10 witness: between the test and the poll, with the adapter's interrupt
\* pending and both watchdogs Armed, all held off by the masking.
C10_Witness ==
  /\ pc = "txavail_529" /\ masked /\ irq /\ rxq # <<>>
  /\ sk_txpoll = "Armed" /\ sk_txtimeout = "Armed"

\* Number of calls of f in a list of calls
Count(calls, f) == Cardinality({i \in DOMAIN calls : calls[i] = f})

\* The calls skel_receive made for the last frame it copied, after the copy
\* and the read of the ethertype
PassCalls == SubSeq(ev.trace, 3, Len(ev.trace))

\* skel_receive has returned and the last frame it copied was a pending
\* frame of ethertype ty that passed the checks
LastFrame(ty) ==
  /\ ev.op = "skel_receive"
  /\ Len(ev.trace) >= 2
  /\ ev.trace[1] = "rx"
  /\ ev.trace[2] = ty

\* C11: for an ARP frame, uip_arp_arpin is called; if it leaves d_len > 0
\* skel_transmit is called exactly once and uip_arp_out is not called, and
\* if it leaves d_len = 0 nothing is sent.
C11_ArpReplySentDirectly ==
  LastFrame("ARP") =>
    /\ Len(PassCalls) >= 2
    /\ PassCalls[1] = "uip_arp_arpin"
    /\ Count(PassCalls, "uip_arp_out") = 0
    /\ Count(PassCalls, "skel_transmit") =
         (IF PassCalls[2] = "d_len>0" THEN 1 ELSE 0)

C11_Witness ==
  /\ LastFrame("ARP")
  /\ PassCalls = <<"uip_arp_arpin", "d_len>0", "skel_transmit", "wd_start_txtimeout">>

\* C12: for an IP frame, uip_input is called; if it leaves d_len > 0
\* uip_arp_out is called exactly once and then skel_transmit exactly once,
\* and if it leaves d_len = 0 neither is called.
C12_IpReplyThroughArpOut ==
  LastFrame("IP") =>
    /\ Len(PassCalls) >= 3
    /\ SubSeq(PassCalls, 1, 2) = <<"uip_arp_ipin", "uip_input">>
    /\ IF PassCalls[3] = "d_len>0"
         THEN /\ Count(PassCalls, "uip_arp_out") = 1
              /\ Count(PassCalls, "skel_transmit") = 1
              /\ \E i, j \in DOMAIN PassCalls :
                   /\ i < j
                   /\ PassCalls[i] = "uip_arp_out"
                   /\ PassCalls[j] = "skel_transmit"
         ELSE /\ Count(PassCalls, "uip_arp_out") = 0
              /\ Count(PassCalls, "skel_transmit") = 0

C12_Witness ==
  /\ LastFrame("IP")
  /\ PassCalls = <<"uip_arp_ipin", "uip_input", "d_len>0", "uip_arp_out",
                   "skel_transmit", "wd_start_txtimeout">>

\* C13: skel_transmit is not called while an earlier transmit is
\* outstanding: the adapter never holds more than one frame admitted and
\* not yet completed.
C13_OneTransmitInFlight == txpending <= 1

\* Every call of a in a list of calls comes before every call of b
Before(calls, a, b) ==
  \A i, j \in DOMAIN calls : (calls[i] = a /\ calls[j] = b) => i < j

C15_ActsOnSetBitsOnly ==
  ev.op = "interrupt" =>
    /\ ~ev.txdn => (ev.polls = 0 /\ Count(ev.trace, "wd_cancel") = 0)
    /\ ~ev.rxrdy => ev.drained = 0

\* C16: a skel_transmit whose packet the adapter cannot take does not start
\* the TX timeout watchdog: a poll made while the adapter is full, every
\* transmit of which fails, makes no wd_start and leaves the watchdog as it
\* was.
C16_FailedTransmitLeavesTimer ==
  [][(txpending = MaxTx /\ ev'.op \in {"polltimer", "txavail"}) =>
       /\ Count(ev'.trace, "wd_start_txtimeout") = 0
       /\ sk_txtimeout' = sk_txtimeout
    ]_vars

C18_BadFrameDropped ==
  (/\ ev.op = "skel_receive"
   /\ Len(ev.trace) >= 2
   /\ (ev.trace[1] = "rx_bad" \/ ev.trace[2] = "OTHER")) =>
     Len(ev.trace) = 2

IsDown == ~sk_bifup /\ pc \notin IfupPcs

\* C20: while the interface is down and no skel_ifup is under way both
\* watchdogs are Idle, and no handler runs, nothing is polled and nothing
\* is sent.
C20_DownIsQuiet ==
  /\ [](IsDown => (sk_txpoll = "Idle" /\ sk_txtimeout = "Idle"))
  /\ [][IsDown => (ev'.op \notin HandlerOps /\ ev'.polls = 0 /\ ev'.xmits = 0)]_vars

\* C20 witness: skel_ifdown has just returned
C20_Witness ==
  /\ IsDown /\ pc = "idle" /\ ~masked
  /\ ev.op = "ifdown"

====
